---- MODULE Spec2Model ----
(***************************************************************************)
(* CoachAI: the service layer (coachai/services/coach_service.py), the     *)
(* controller (coachai/controllers/coach_controller.py) and the Streamlit  *)
(* handlers of app.py that drive them, as one state machine.               *)
(*                                                                         *)
(* The knowledge repository, the Supabase client and the model handler are *)
(* collaborators: every call into them is a step whose outcome (a value,   *)
(* an empty value, an exception) is chosen by the environment.             *)
(***************************************************************************)
EXTENDS Integers, Sequences, FiniteSets, TLC

\* ------------------------------------------------------------------ bounds
MaxCalls == 2        \* top-level operations per behaviour
MaxAtt == 2          \* attachments supplied to one store_user_query call
MaxFaults == 1       \* collaborator calls that fail or come back empty, per behaviour
MaxTexts == 2        \* texts handed to one embed call, vectors in one response
MaxSwitches == 1     \* set_user_context calls arriving during one operation
MaxEntries == 2      \* entries in one list handed to the prompt assembly

\* ------------------------------------------------------------ value domains
NullId == 0          \* None where an id is expected; real ids are >= 1
NoIndex == -1        \* metadata.index of a row whose metadata was never written
TOP_K == 2            \* config.TOP_K
NoUser == "None"     \* None where a user id is expected
Users == {"u1"}

\* content_types as supplied by the caller: a prefix of this list
ContentTypeList == <<"image/jpeg", "image/gif", "image/webp">>

\* knowledge_repo.all(): the cached lessons, in cache order
LessonCache == <<[id |-> 11, topic |-> "Geometry"],
                 [id |-> 12, topic |-> " algebra"],
                 [id |-> 13, topic |-> "Algebra"]>>

\* the rows of table lessons at start: a system-seeded public entry, a private
\* entry of u1 and a public entry of another account
Accounts == {"u1", "u2"}
SeedLessons == <<[id |-> 11, topic |-> "Geometry", owner_id |-> NoUser,
                  visibility |-> "public"],
                 [id |-> 12, topic |-> " algebra", owner_id |-> "u1",
                  visibility |-> "private"],
                 [id |-> 13, topic |-> "Algebra", owner_id |-> "u2",
                  visibility |-> "public"]>>

\* the topics a practice question is asked about
Topics == {"ALGEBRA ", "History"}

\* what knowledge_repo.search can return: lesson ids, best first
RelevantChoices == {<<>>, <<13, 11>>}

\* what model_handler.generate can return
ModelOutputs == {"text_a", "text_b"}

NoRet == [kind |-> "none", id |-> NullId, text |-> "", rel |-> <<>>]
IdRet(i) == [kind |-> "value", id |-> i, text |-> "", rel |-> <<>>]
TextRet(t) == [kind |-> "value", id |-> NullId, text |-> t, rel |-> <<>>]
ListRet(l) == [kind |-> "value", id |-> NullId, text |-> "", rel |-> l]
Raised(e) == [kind |-> "raise", id |-> NullId, text |-> e, rel |-> <<>>]

\* the failures a collaborator call can end in (spec.md section 7 taxonomy)
EmbedErrors == {"DimensionMismatch", "ProviderUnavailable"}
StoreError == "TransientStoreFailure"
ModelError == "ModelFailure"

ErrCode(e) ==
    CASE e = "DimensionMismatch" -> 1
      [] e = "ProviderUnavailable" -> 2
      [] e = "TransientStoreFailure" -> 3
      [] OTHER -> 4

NoMetadata == [source |-> "None", query_id |-> NullId, user_id |-> NoUser,
               index |-> NoIndex, content_type |-> "None"]

VARIABLES
    current_user_id,      \* CoachService.current_user_id
    knowledge_ctx,        \* what knowledge_repo.set_user_context was last given
    cohere,               \* a CohereClient and the embed call running on it
    prompt,               \* generate_explanation: arguments and messages built
    lessons,              \* table lessons (KnowledgeEntry rows), in store order
    attachments,          \* table attachments: row id = position in the sequence
    user_queries,         \* table user_queries
    embeddings,           \* embedding index: set of <<source_table, source_id>>
    generated_questions,  \* table generated_questions
    answers,              \* table answers
    session,              \* st.session_state
    ui,                   \* widget values and locals of the running handler
    pc,                   \* position of the running operation, "idle" between
    stack,                \* continuations of the callers of the running function
    ret,                  \* what the last finished function returned or raised
    suq,                  \* locals of store_user_query
    sgq,                  \* locals of store_generated_question
    gen,                  \* locals of generate_* / evaluate_answer
    op,                   \* the top-level operation running, or run last
    ncalls,               \* top-level operations started so far
    returned_ids,         \* history: the query ids store_user_query has returned
    trace,                \* collaborator calls of the current top-level operation
    faults                \* collaborator failures so far

vars == <<current_user_id, knowledge_ctx, cohere, prompt, lessons, attachments,
          user_queries, embeddings,
          generated_questions, answers, session, ui, pc, stack, ret, suq, sgq,
          gen, op, ncalls, returned_ids, trace, faults>>

context == <<current_user_id, knowledge_ctx>>
aux == <<cohere, prompt, lessons>>
store == <<attachments, user_queries, embeddings, generated_questions, answers>>
app == <<session, ui>>
ctl == <<op, ncalls>>

NoSuq == [user_id |-> NoUser, n |-> 0, ctlen |-> 0, i |-> 0,
          attachment_ids |-> <<>>, sup |-> FALSE, qid |-> NullId, idx |-> 0,
          call |-> 0]

NoSgq == [lesson_id |-> NullId, query_id |-> NullId, question_text |-> ""]

\* the top_k argument of find_relevant: absent (None), or an integer
NoTopK == [given |-> FALSE, value |-> 0]
TopK(v) == [given |-> TRUE, value |-> v]
TopKArgs == {NoTopK} \cup {TopK(v) : v \in {-1, 0, 1, 2}}

NoGen == [fn |-> "", topic |-> "", supplied |-> <<>>, relevant |-> <<>>,
          text |-> "", top_k |-> NoTopK]

NoSession == [user_id |-> NoUser, operation_running |-> FALSE,
              operation_type |-> "None", stop_requested |-> FALSE,
              last_query_id |-> NullId, practice_question |-> "",
              topic |-> "", delete_pending |-> NullId, delete_topic |-> ""]

NoUi == [text |-> "", image |-> FALSE, sentinel |-> FALSE,
         relevant |-> <<>>, topic |-> "", shown |-> "", shown_text |-> "",
         listing |-> <<>>, confirm |-> NullId]

Event(e, a, b) == [ev |-> e, a |-> a, b |-> b]

\* knowledge_repo.set_user_context(None): no principal, no tokens
NoContext == [user_id |-> NoUser, access_token |-> "None", refresh_token |-> "None"]

\* no CohereClient constructed yet
NoResult == [kind |-> "none", error |-> "", vectors |-> <<>>]
NoCohere == [pc |-> "none", api_key |-> FALSE, sdk |-> FALSE, client |-> FALSE,
             model |-> "", model_arg |-> "", cfg_model |-> "", dim |-> 0,
             n |-> 0, calls |-> <<>>, vectors |-> <<>>, given |-> <<>>,
             result |-> NoResult]

\* generate_explanation not called yet
NoPrompt == [pc |-> "none", query |-> "", relevant |-> <<>>, image |-> FALSE,
             messages |-> <<>>]

Init ==
    /\ current_user_id = NoUser
    /\ knowledge_ctx = NoContext
    /\ cohere = NoCohere
    /\ prompt = NoPrompt
    /\ lessons = SeedLessons
    /\ attachments = <<>>
    /\ user_queries = <<>>
    /\ embeddings = {}
    /\ generated_questions = <<>>
    /\ answers = <<>>
    /\ session = NoSession
    /\ ui = NoUi
    /\ pc = "idle"
    /\ stack = <<>>
    /\ ret = NoRet
    /\ suq = NoSuq
    /\ sgq = NoSgq
    /\ gen = NoGen
    /\ op = "none"
    /\ ncalls = 0
    /\ returned_ids = {}
    /\ trace = <<>>
    /\ faults = 0

\* The environment may make a collaborator call fail while the budget lasts.
Outcome(out, good) ==
    /\ out \notin good => faults < MaxFaults
    /\ faults' = IF out \in good THEN faults ELSE faults + 1

\* A function returns r to the continuation its caller left on the stack; a
\* call made from the outside (controller, test) has none and ends the operation.
Return(r) ==
    /\ ret' = r
    /\ pc' = IF stack = <<>> THEN "idle" ELSE Head(stack)
    /\ stack' = IF stack = <<>> THEN <<>> ELSE Tail(stack)

\* ------------------------------------------------- CoachService.store_user_query

\* except Exception: return None
StoreUserQueryExceptPropagates(e) == Raised(e)
StoreUserQueryExcept(e) == IdRet(NullId)

SuqReturn(r) ==
    /\ Return(r)
    /\ returned_ids' = IF r.kind = "value" /\ r.id # NullId
                       THEN returned_ids \cup {r.id} ELSE returned_ids

\* content_type of the upload of attachment i
UploadContentType(ctlen, i) ==
    IF ctlen > 0 /\ i < ctlen THEN ContentTypeList[i + 1] ELSE "image/png"

\* the metadata map written by the back-fill of the idx-th collected id
BackfillMetadata(s, idx) ==
    [source |-> "user_query", query_id |-> s.qid, user_id |-> s.user_id,
     index |-> idx,
     content_type |-> IF s.ctlen > 0 /\ idx < s.ctlen
                      THEN ContentTypeList[idx + 1] ELSE "None"]

\* entry: the locals of a fresh call; the upload loop runs if the list is not empty
StoreUserQueryEnterSkipsUploads(u, n, c, k) ==
    /\ suq' = [NoSuq EXCEPT !.user_id = u, !.n = n, !.ctlen = c, !.call = k]
    /\ pc' = "suq_embed"
StoreUserQueryEnter(u, n, c, k) ==
    /\ suq' = [NoSuq EXCEPT !.user_id = u, !.n = n, !.ctlen = c, !.call = k]
    /\ pc' = IF n > 0 THEN "suq_upload" ELSE "suq_embed"

\* the row upload_attachment creates
NewAttachmentLinked(s, i) ==
    [call |-> s.call, pos |-> i, owner_user_id |-> s.user_id,
     content_type |-> UploadContentType(s.ctlen, i),
     query_id |-> Len(user_queries) + 1, metadata |-> NoMetadata, updates |-> 0]
NewAttachment(s, i) ==
    [call |-> s.call, pos |-> i, owner_user_id |-> s.user_id,
     content_type |-> UploadContentType(s.ctlen, i),
     query_id |-> NullId, metadata |-> NoMetadata, updates |-> 0]

\* one iteration of the upload loop
SUQ_Upload ==
    /\ pc = "suq_upload"
    /\ \E out \in {"row", "none", "raise"} :
        LET i == suq.i
            aid == Len(attachments) + 1
            next == IF i + 1 < suq.n THEN "suq_upload" ELSE "suq_embed"
        IN  /\ Outcome(out, {"row"})
            /\ CASE out = "row" ->
                    /\ attachments' = Append(attachments, NewAttachment(suq, i))
                    /\ suq' = [suq EXCEPT !.i = i + 1,
                                          !.attachment_ids = Append(@, aid)]
                    /\ trace' = Append(trace, Event("upload", aid, i))
                    /\ pc' = next
                    /\ UNCHANGED <<stack, ret, returned_ids>>
              [] out = "none" ->
                    /\ suq' = [suq EXCEPT !.i = i + 1]
                    /\ trace' = Append(trace, Event("upload", NullId, i))
                    /\ pc' = next
                    /\ UNCHANGED <<attachments, stack, ret, returned_ids>>
              [] out = "raise" ->
                    /\ trace' = Append(trace, Event("upload_raise", NullId, i))
                    /\ SuqReturn(StoreUserQueryExcept(StoreError))
                    /\ UNCHANGED <<attachments, suq>>
    /\ UNCHANGED <<context, aux, user_queries, embeddings,
                   generated_questions, answers, app, sgq, gen, ctl>>

\* emb = self.knowledge_repo.embed_texts([text_query])[0]
SUQ_Embed ==
    /\ pc = "suq_embed"
    /\ \E out \in {"vector"} \cup EmbedErrors :
        /\ Outcome(out, {"vector"})
        /\ IF out = "vector"
           THEN /\ trace' = Append(trace, Event("embed", NullId, 0))
                /\ pc' = "suq_get_supabase"
                /\ UNCHANGED <<stack, ret, returned_ids>>
           ELSE /\ trace' = Append(trace, Event("embed_raise", NullId, ErrCode(out)))
                /\ SuqReturn(StoreUserQueryExcept(out))
    /\ UNCHANGED <<context, aux, store, app, suq, sgq, gen, ctl>>

\* sup = self.knowledge_repo._get_supabase(); qid = None
SUQ_GetSupabase ==
    /\ pc = "suq_get_supabase"
    /\ \E out \in {"client", "none", "raise"} :
        /\ Outcome(out, {"client"})
        /\ CASE out = "client" ->
                /\ suq' = [suq EXCEPT !.sup = TRUE]
                /\ trace' = Append(trace, Event("get_supabase", 1, 0))
                /\ pc' = "suq_insert"
                /\ UNCHANGED <<stack, ret, returned_ids>>
          [] out = "none" ->
                \* no insert, no back-fill, no index row: return qid, None
                /\ suq' = [suq EXCEPT !.sup = FALSE]
                /\ trace' = Append(trace, Event("get_supabase", NullId, 0))
                /\ SuqReturn(IdRet(NullId))
          [] out = "raise" ->
                /\ trace' = Append(trace, Event("get_supabase_raise", NullId, 0))
                /\ SuqReturn(StoreUserQueryExcept(StoreError))
                /\ UNCHANGED suq
    /\ UNCHANGED <<context, aux, store, app, sgq, gen, ctl>>

\* if sup and qid and attachment_ids: back-fill;  if qid: index row;  return qid
AfterInsertSkipsGuard(s, qid) ==
    IF s.attachment_ids # <<>> THEN "suq_backfill" ELSE "suq_add_embedding"
AfterInsert(s, qid) ==
    IF qid # NullId
    THEN (IF s.attachment_ids # <<>> THEN "suq_backfill" ELSE "suq_add_embedding")
    ELSE "suq_return"

\* res = sup.table_insert('user_queries', rec); qid = res.data[0].get('id')
SUQ_Insert ==
    /\ pc = "suq_insert"
    /\ \E out \in {"row", "nodata", "raise"} :
        /\ Outcome(out, {"row"})
        /\ CASE out = "row" ->
                LET qid == Len(user_queries) + 1 IN
                /\ user_queries' = Append(user_queries,
                        [call |-> suq.call, user_id |-> suq.user_id,
                         image_attachment_ids |-> suq.attachment_ids])
                /\ suq' = [suq EXCEPT !.qid = qid]
                /\ trace' = Append(trace, Event("insert", qid, 0))
                /\ pc' = AfterInsert(suq, qid)
                /\ UNCHANGED <<stack, ret, returned_ids>>
          [] out = "nodata" ->
                /\ trace' = Append(trace, Event("insert", NullId, 0))
                /\ pc' = AfterInsert(suq, NullId)
                /\ UNCHANGED <<user_queries, suq, stack, ret, returned_ids>>
          [] out = "raise" ->
                /\ trace' = Append(trace, Event("insert_raise", NullId, 0))
                /\ SuqReturn(StoreUserQueryExcept(StoreError))
                /\ UNCHANGED <<user_queries, suq>>
    /\ UNCHANGED <<context, aux, attachments, embeddings,
                   generated_questions, answers, app, sgq, gen, ctl>>

\* where the back-fill loop goes after one update: the inner except logs the
\* failure and the loop carries on with the next attachment
BackfillNextStopOnFailure(out, idx, n) ==
    IF out = "ok" /\ idx + 1 < n THEN "suq_backfill" ELSE "suq_add_embedding"
BackfillNext(out, idx, n) ==
    IF idx + 1 < n THEN "suq_backfill" ELSE "suq_add_embedding"

\* for idx, aid in enumerate(attachment_ids): the row one iteration updates
BackfillTargetFirst(s, idx) == s.attachment_ids[1]
BackfillTarget(s, idx) == s.attachment_ids[idx + 1]

\* one iteration of the back-fill loop; a failed update is logged and skipped
SUQ_Backfill ==
    /\ pc = "suq_backfill"
    /\ \E out \in {"ok", "raise"} :
        LET idx == suq.idx
            aid == BackfillTarget(suq, idx)
        IN  /\ Outcome(out, {"ok"})
            /\ IF out = "ok"
               THEN /\ attachments' = [attachments EXCEPT ![aid] =
                            [@ EXCEPT !.query_id = suq.qid,
                                      !.metadata = BackfillMetadata(suq, idx),
                                      !.updates = @ + 1]]
                    /\ trace' = Append(trace, Event("update", aid, idx))
               ELSE /\ trace' = Append(trace, Event("update_raise", aid, idx))
                    /\ UNCHANGED attachments
            /\ suq' = [suq EXCEPT !.idx = idx + 1]
            /\ pc' = BackfillNext(out, idx, Len(suq.attachment_ids))
    /\ UNCHANGED <<context, aux, user_queries, embeddings, generated_questions,
                   answers, app, stack, ret, sgq, gen, ctl, returned_ids>>

\* the index row add_embedding_for_source('user_queries', qid, emb, ...) writes
IndexRowsNotWritten(rows, qid) == rows
IndexRows(rows, qid) == rows \cup {<<"user_queries", qid>>}

\* return qid
ReturnedQidDropped(qid) == NullId
ReturnedQid(qid) == qid

\* if qid: self.knowledge_repo.add_embedding_for_source(...);  return qid
SUQ_AddEmbedding ==
    /\ pc = "suq_add_embedding"
    /\ \E out \in {"ok", "raise"} :
        /\ Outcome(out, {"ok"})
        /\ IF out = "ok"
           THEN /\ embeddings' = IndexRows(embeddings, suq.qid)
                /\ trace' = Append(trace, Event("add_embedding", suq.qid, 0))
                /\ SuqReturn(IdRet(ReturnedQid(suq.qid)))
           ELSE /\ trace' = Append(trace, Event("add_embedding_raise", suq.qid, 0))
                /\ SuqReturn(StoreUserQueryExcept(StoreError))
                /\ UNCHANGED embeddings
    /\ UNCHANGED <<context, aux, attachments, user_queries,
                   generated_questions, answers, app, suq, sgq, gen, ctl>>

\* return qid, when the insert gave no id
SUQ_Return ==
    /\ pc = "suq_return"
    /\ SuqReturn(IdRet(ReturnedQid(suq.qid)))
    /\ UNCHANGED <<context, aux, store, app, suq, sgq, gen, ctl, trace, faults>>

\* --------------------------------------------- CoachService.set_user_context

\* self.current_user_id = str(user_id) if user_id else None
UserContextToggles(u) == IF current_user_id = u THEN NoUser ELSE u
UserContextOf(u) == IF u = NoUser \/ u = "" THEN NoUser ELSE u

\* access_token / refresh_token as passed on: absent, or a token pair
NoCredentials == [access_token |-> "None", refresh_token |-> "None"]
Credentials == {NoCredentials, [access_token |-> "at", refresh_token |-> "rt"]}

\* knowledge_repo.set_user_context(user_id, access_token=..., refresh_token=...)
\* keeps the principal and the tokens it is given
RepoSetUserContext(uid, cred) ==
    [user_id |-> uid, access_token |-> cred.access_token,
     refresh_token |-> cred.refresh_token]

UserCode(u) == CASE u = NoUser -> 0 [] u = "" -> 1 [] OTHER -> 2

\* the body of set_user_context
SetUserContextTo(u, cred) ==
    /\ current_user_id' = UserContextOf(u)
    /\ knowledge_ctx' = RepoSetUserContext(UserContextOf(u), cred)
    /\ trace' = <<Event("set_user_context", UserCode(u),
                        IF cred = NoCredentials THEN 0 ELSE 1)>>
    /\ ret' = NoRet

\* the arguments set_user_context is called with: any principal (None, the
\* empty string, a user id) with any credentials
ContextArgs ==
    {[u |-> u, cred |-> c] : u \in Users \cup {NoUser, ""}, c \in Credentials}

\* the arguments app.py passes: the signed-in user with the session's tokens,
\* or None on sign-out
SessionArgs ==
    {[u |-> NoUser, cred |-> NoCredentials]} \cup
    {[u |-> u, cred |-> [access_token |-> "at", refresh_token |-> "rt"]] :
        u \in Users}

SetUserContextCall(args) ==
    /\ pc = "idle"
    /\ \E a \in args : SetUserContextTo(a.u, a.cred)
    /\ op' = "set_user_context"
    /\ UNCHANGED <<aux, store, app, pc, stack, suq, sgq, gen, ncalls,
                   returned_ids, faults>>

SetUserContext == SetUserContextCall(SessionArgs)

\* ------------------------------------------------ CoachService.find_relevant

\* what knowledge_repo.search ends in: a list of entries, or an exception
SearchLists == {ListRet(l) : l \in RelevantChoices}
SearchOutcomes == SearchLists \cup {Raised(e) : e \in EmbedErrors \cup {StoreError}}

\* return self.knowledge_repo.search(...): no handler, the outcome passes through
FindRelevantAbsorbs(r) == IF r.kind = "raise" THEN ListRet(<<>>) ELSE r
FindRelevant(r) == r

\* try: relevant = self.find_relevant(...)  except Exception: relevant = []
RetrieveOrEmptyPropagates(r) == r
RetrieveOrEmpty(r) == IF r.kind = "raise" THEN ListRet(<<>>) ELSE r

\* top_k or self.config.TOP_K
TopKOrDefault(t) == IF t.given /\ t.value # 0 THEN t.value ELSE TOP_K

\* knowledge_repo.search(query, top_k=k)
SearchEvent(r, k) ==
    IF r.kind = "raise" THEN Event("search_raise", k, ErrCode(r.text))
    ELSE Event("search", k, Len(r.rel))

\* the retrieval step of generate_explanation, generate_practice_question and
\* evaluate_answer
Retrieve(here, next) ==
    /\ pc = here
    /\ \E out \in SearchOutcomes :
        LET r == RetrieveOrEmpty(FindRelevant(out)) IN
        /\ Outcome(out, SearchLists)
        /\ trace' = Append(trace, SearchEvent(out, TopKOrDefault(TopK(TOP_K))))
        /\ IF r.kind = "raise"
           THEN /\ Return(r)
                /\ UNCHANGED gen
           ELSE /\ gen' = [gen EXCEPT !.relevant = r.rel]
                /\ pc' = next
                /\ UNCHANGED <<stack, ret>>
    /\ UNCHANGED <<context, aux, store, app, suq, sgq, ctl, returned_ids>>

\* the text a function hands on from model_handler.generate
ModelTextReplaced(out) == "text_a"
ModelText(out) == out

\* the model call of the same three functions: its text, or its exception
Generate(here, next) ==
    /\ pc = here
    /\ \E out \in ModelOutputs \cup {"raise"} :
        /\ Outcome(out, ModelOutputs)
        /\ IF out = "raise"
           THEN /\ trace' = Append(trace, Event("generate_raise", NullId, 0))
                /\ Return(Raised(ModelError))
                /\ UNCHANGED gen
           ELSE /\ trace' = Append(trace,
                        Event("generate", IF out = "text_a" THEN 1 ELSE 2,
                              Len(gen.relevant)))
                /\ gen' = [gen EXCEPT !.text = ModelText(out)]
                /\ IF next = "return"
                   THEN Return(TextRet(ModelText(out)))
                   ELSE /\ pc' = next
                        /\ UNCHANGED <<stack, ret>>
    /\ UNCHANGED <<context, aux, store, app, suq, sgq, ctl, returned_ids>>

\* the model output the trace recorded for the current operation
GeneratedText ==
    LET idx == {i \in DOMAIN trace : trace[i].ev = "generate"} IN
    IF idx = {} THEN ""
    ELSE IF trace[CHOOSE i \in idx : TRUE].a = 1 THEN "text_a" ELSE "text_b"

\* ----------------------------------------- CoachService.generate_explanation

\* if not relevant: retrieval is re-run
NeedsRetrievalNever(supplied) == FALSE
NeedsRetrieval(supplied) == supplied = <<>>

GenerateExplanationEnter(supplied) ==
    /\ gen' = [NoGen EXCEPT !.fn = "generate_explanation", !.supplied = supplied,
                            !.relevant = supplied]
    /\ pc' = IF NeedsRetrieval(supplied) THEN "gx_retrieve" ELSE "gx_generate"

GX_Retrieve == Retrieve("gx_retrieve", "gx_generate")

GX_Generate == Generate("gx_generate", "return")

\* ----------------------------------- CoachService.store_generated_question

StoreGeneratedQuestionEnter(lesson_id, query_id, text) ==
    /\ sgq' = [lesson_id |-> lesson_id, query_id |-> query_id, question_text |-> text]
    /\ pc' = "sgq_get_supabase"

\* no try/except in store_generated_question: a collaborator's exception
\* reaches the caller
SgqFailureAbsorbed(e) == IdRet(NullId)
SgqFailure(e) == Raised(e)

\* sup = self.knowledge_repo._get_supabase(); if not sup: return None
SGQ_GetSupabase ==
    /\ pc = "sgq_get_supabase"
    /\ \E out \in {"client", "none", "raise"} :
        /\ Outcome(out, {"client"})
        /\ CASE out = "client" ->
                /\ trace' = Append(trace, Event("get_supabase", 1, 0))
                /\ pc' = "sgq_insert"
                /\ UNCHANGED <<stack, ret>>
          [] out = "none" ->
                /\ trace' = Append(trace, Event("get_supabase", NullId, 0))
                /\ Return(IdRet(NullId))
          [] out = "raise" ->
                /\ trace' = Append(trace, Event("get_supabase_raise", NullId, 0))
                /\ Return(SgqFailure(StoreError))
    /\ UNCHANGED <<context, aux, store, app, suq, sgq, gen, ctl, returned_ids>>

\* return res.data[0].get('id') if res and res.data, else None
SgqInsertedIdAlwaysNone(res) == NullId
SgqInsertedId(res) == res

\* res = sup.table_insert('generated_questions', rec)
SGQ_Insert ==
    /\ pc = "sgq_insert"
    /\ \E out \in {"row", "nodata", "raise"} :
        /\ Outcome(out, {"row"})
        /\ CASE out = "row" ->
                LET gid == Len(generated_questions) + 1 IN
                /\ generated_questions' = Append(generated_questions,
                        [lesson_id |-> sgq.lesson_id, query_id |-> sgq.query_id,
                         question_text |-> sgq.question_text])
                /\ trace' = Append(trace, Event("insert_question", gid, 0))
                /\ Return(IdRet(SgqInsertedId(gid)))
          [] out = "nodata" ->
                /\ trace' = Append(trace, Event("insert_question", NullId, 0))
                /\ Return(IdRet(SgqInsertedId(NullId)))
                /\ UNCHANGED generated_questions
          [] out = "raise" ->
                /\ trace' = Append(trace, Event("insert_question_raise", NullId, 0))
                /\ Return(SgqFailure(StoreError))
                /\ UNCHANGED generated_questions
    /\ UNCHANGED <<context, aux, attachments, user_queries, embeddings, answers,
                   app, suq, sgq, gen, ctl, returned_ids>>

\* ----------------------------------- CoachService.generate_practice_question

\* str(t).strip().lower() on the topics and cached topics of this model
NormTopicExact(t) == t
NormTopic(t) ==
    CASE t = "ALGEBRA " -> "algebra"
      [] t = " algebra" -> "algebra"
      [] t = "Algebra" -> "algebra"
      [] t = "Geometry" -> "geometry"
      [] t = "History" -> "history"
      [] OTHER -> t

\* the id of the first cached lesson whose topic matches, None without one
RECURSIVE ResolveLessonId(_, _)
ResolveLessonId(cache, topic) ==
    IF cache = <<>> THEN NullId
    ELSE IF NormTopic(Head(cache).topic) = NormTopic(topic) THEN Head(cache).id
    ELSE ResolveLessonId(Tail(cache), topic)

GeneratePracticeQuestionEnter(topic) ==
    /\ gen' = [NoGen EXCEPT !.fn = "generate_practice_question", !.topic = topic]
    /\ pc' = "gpq_retrieve"

GPQ_Retrieve == Retrieve("gpq_retrieve", "gpq_generate")

GPQ_Generate == Generate("gpq_generate", "gpq_persist")

\* if self.current_user_id: resolve lesson_id, store_generated_question(...)
GPQ_Persist ==
    /\ pc = "gpq_persist"
    /\ IF current_user_id # NoUser
       THEN /\ StoreGeneratedQuestionEnter(
                    ResolveLessonId(LessonCache, gen.topic), NullId, gen.text)
            /\ stack' = <<"gpq_after_store">> \o stack
            /\ UNCHANGED ret
       ELSE /\ Return(TextRet(gen.text))
            /\ UNCHANGED sgq
    /\ UNCHANGED <<context, aux, store, app, suq, gen, ctl, returned_ids,
                   trace, faults>>

\* except Exception: pass;  return q  (likewise return resp)
BestEffortResultPropagates(r, text) == IF r.kind = "raise" THEN r ELSE TextRet(text)
BestEffortResult(r, text) == TextRet(text)

GPQ_AfterStore ==
    /\ pc = "gpq_after_store"
    /\ Return(BestEffortResult(ret, gen.text))
    /\ UNCHANGED <<context, aux, store, app, suq, sgq, gen, ctl, returned_ids,
                   trace, faults>>

\* --------------------------------------------- CoachService.evaluate_answer

EvaluateAnswerEnter ==
    /\ gen' = [NoGen EXCEPT !.fn = "evaluate_answer"]
    /\ pc' = "ea_retrieve"

EA_Retrieve == Retrieve("ea_retrieve", "ea_generate")

EA_Generate == Generate("ea_generate", "ea_get_supabase")

\* if sup and self.current_user_id
ShouldWriteAnswerIgnoresPrincipal(sup, uid) == sup
ShouldWriteAnswer(sup, uid) == sup /\ uid # NoUser

\* sup = self.knowledge_repo._get_supabase(), inside the try
EA_GetSupabase ==
    /\ pc = "ea_get_supabase"
    /\ \E out \in {"client", "none", "raise"} :
        /\ Outcome(out, {"client"})
        /\ trace' = Append(trace,
                IF out = "raise" THEN Event("get_supabase_raise", NullId, 0)
                ELSE Event("get_supabase", IF out = "client" THEN 1 ELSE NullId,
                           UserCode(current_user_id)))
        /\ IF ShouldWriteAnswer(out = "client", current_user_id)
           THEN /\ pc' = "ea_insert"
                /\ UNCHANGED <<stack, ret>>
           ELSE Return(BestEffortResult(
                    IF out = "raise" THEN Raised(StoreError) ELSE NoRet, gen.text))
    /\ UNCHANGED <<context, aux, store, app, suq, sgq, gen, ctl, returned_ids>>

\* sup.table_insert('answers', rec), rec.user_id = self.current_user_id
EA_Insert ==
    /\ pc = "ea_insert"
    /\ \E out \in {"row", "raise"} :
        /\ Outcome(out, {"row"})
        /\ IF out = "row"
           THEN /\ answers' = Append(answers,
                        [user_id |-> current_user_id, model_answer |-> gen.text])
                /\ trace' = Append(trace, Event("insert_answer", Len(answers) + 1, 0))
           ELSE /\ trace' = Append(trace, Event("insert_answer_raise", NullId, 0))
                /\ UNCHANGED answers
        /\ Return(BestEffortResult(
                IF out = "raise" THEN Raised(StoreError) ELSE NoRet, gen.text))
    /\ UNCHANGED <<context, aux, attachments, user_queries, embeddings,
                   generated_questions, app, suq, sgq, gen, ctl, returned_ids>>

\* ------------------------------------------------------------ entry points

\* a call from outside the service: no caller continuation
Begin(name) ==
    /\ pc = "idle"
    /\ ncalls < MaxCalls
    /\ ncalls' = ncalls + 1
    /\ op' = name
    /\ trace' = <<>>
    /\ ret' = NoRet
    /\ stack' = <<>>
    /\ UNCHANGED <<context, aux, store, returned_ids, faults>>

\* CoachController.submit_query
SubmitQuery ==
    /\ Begin("submit_query")
    \* one content type per image, as app.py builds the two lists
    /\ \E u \in Users, n \in 0..MaxAtt : StoreUserQueryEnter(u, n, n, ncalls + 1)
    /\ sgq' = NoSgq
    /\ gen' = NoGen
    /\ UNCHANGED app

\* CoachController.generate_question
GenerateQuestion ==
    /\ Begin("generate_question")
    /\ \E l \in {NullId, 12} : StoreGeneratedQuestionEnter(l, NullId, "text_a")
    /\ suq' = NoSuq
    /\ gen' = NoGen
    /\ UNCHANGED app

\* CoachController.evaluate
Evaluate ==
    /\ Begin("evaluate")
    /\ EvaluateAnswerEnter
    /\ suq' = NoSuq
    /\ sgq' = NoSgq
    /\ UNCHANGED app

\* CoachService.generate_practice_question, called directly
GeneratePracticeQuestion ==
    /\ Begin("generate_practice_question")
    /\ \E t \in Topics : GeneratePracticeQuestionEnter(t)
    /\ suq' = NoSuq
    /\ sgq' = NoSgq
    /\ UNCHANGED app

\* CoachService.generate_explanation, called directly
GenerateExplanation ==
    /\ Begin("generate_explanation")
    /\ \E supplied \in RelevantChoices : GenerateExplanationEnter(supplied)
    /\ suq' = NoSuq
    /\ sgq' = NoSgq
    /\ UNCHANGED app

\* CoachService.find_relevant, called directly
FindRelevantCall ==
    /\ pc = "idle"
    /\ ncalls < MaxCalls
    /\ ncalls' = ncalls + 1
    /\ op' = "find_relevant"
    /\ \E out \in SearchOutcomes, t \in TopKArgs :
        /\ Outcome(out, SearchLists)
        /\ trace' = <<SearchEvent(out, TopKOrDefault(t))>>
        /\ ret' = FindRelevant(out)
        /\ gen' = [NoGen EXCEPT !.fn = "find_relevant", !.top_k = t]
    /\ suq' = NoSuq
    /\ sgq' = NoSgq
    /\ UNCHANGED <<context, aux, store, app, pc, stack, returned_ids>>

\* the steps of the service functions, whoever called them
ServiceStep ==
    \/ SUQ_Upload
    \/ SUQ_Embed
    \/ SUQ_GetSupabase
    \/ SUQ_Insert
    \/ SUQ_Backfill
    \/ SUQ_AddEmbedding
    \/ SUQ_Return
    \/ SGQ_GetSupabase
    \/ SGQ_Insert
    \/ GPQ_Retrieve
    \/ GPQ_Generate
    \/ GPQ_Persist
    \/ GPQ_AfterStore
    \/ EA_Retrieve
    \/ EA_Generate
    \/ EA_GetSupabase
    \/ EA_Insert
    \/ GX_Retrieve
    \/ GX_Generate

\* the service and the controller, called directly
Next ==
    \/ SetUserContext
    \/ SubmitQuery
    \/ GenerateQuestion
    \/ Evaluate
    \/ GeneratePracticeQuestion
    \/ GenerateExplanation
    \/ FindRelevantCall
    \/ ServiceStep

Spec == Init /\ [][Next]_vars

\* ------------------------------------------------------------ app.py: account

\* st.session_state.user_id = uid; agent.service.set_user_context(uid, ...)
SignedIn(uid) ==
    /\ pc = "idle"
    /\ session.user_id = NoUser
    /\ session' = [session EXCEPT !.user_id = uid]
    /\ SetUserContextTo(uid, [access_token |-> "at", refresh_token |-> "rt"])
    /\ op' = "sign_in"
    \* the script is run again: the locals of the last handler are gone
    /\ ui' = NoUi
    /\ suq' = NoSuq
    /\ sgq' = NoSgq
    /\ gen' = NoGen
    /\ UNCHANGED <<aux, store, pc, stack, ncalls, returned_ids, faults>>

\* the Sign In button, when auth_sign_in gives a user id (a failed sign-in
\* changes nothing)
H_SignIn == \E uid \in Users : SignedIn(uid)

\* the Sign Up button, when auth_sign_up gives a user id
H_SignUp == \E uid \in Users : SignedIn(uid)

\* the Sign Out button
H_SignOut ==
    /\ pc = "idle"
    /\ session.user_id # NoUser
    /\ session' = [session EXCEPT !.user_id = NoUser]
    /\ SetUserContextTo(NoUser, NoCredentials)
    /\ op' = "sign_out"
    \* the script is run again: the locals of the last handler are gone
    /\ ui' = NoUi
    /\ suq' = NoSuq
    /\ sgq' = NoSgq
    /\ gen' = NoGen
    /\ UNCHANGED <<aux, store, pc, stack, ncalls, returned_ids, faults>>

\* ------------------------------------------------- app.py: operation control

\* The handlers read stop_requested at their own checks only: a request that
\* arrives inside a store call of the service is seen exactly as one that
\* arrives when that call has returned, and is taken at that point.
InStoreCall ==
    pc \in {"suq_upload", "suq_embed", "suq_get_supabase", "suq_insert",
            "suq_backfill", "suq_add_embedding", "suq_return",
            "sgq_get_supabase", "sgq_insert", "ea_get_supabase", "ea_insert"}

\* the Stop Operation button, shown while an operation is running
H_StopRequest ==
    /\ session.operation_running
    /\ ~InStoreCall
    /\ ~session.stop_requested
    /\ session' = [session EXCEPT !.stop_requested = TRUE]
    /\ trace' = Append(trace, Event("stop", NullId, 0))
    /\ UNCHANGED <<context, aux, store, ui, pc, stack, ret, suq, sgq, gen, ctl,
                   returned_ids, faults>>

Running(s, type) ==
    [s EXCEPT !.operation_running = TRUE, !.operation_type = type,
              !.stop_requested = FALSE]

\* the finally block of the three handlers
FinallyKeepsStopRequest(s) ==
    [s EXCEPT !.operation_running = FALSE, !.operation_type = "None"]
Finally(s) ==
    [s EXCEPT !.operation_running = FALSE, !.operation_type = "None",
              !.stop_requested = FALSE]

\* a button click starts a handler
Click(name) ==
    /\ pc = "idle"
    /\ ncalls < MaxCalls
    /\ ~session.operation_running
    /\ ncalls' = ncalls + 1
    /\ op' = name
    /\ trace' = <<>>
    /\ ret' = NoRet
    /\ UNCHANGED <<context, aux, store, returned_ids, faults>>

\* the handler ends: what it showed, and the finally block
Finish(what, text) ==
    /\ ui' = [ui EXCEPT !.shown = what, !.shown_text = text]
    /\ session' = Finally(session)
    /\ pc' = "idle"
    /\ stack' = <<>>

\* ------------------------------------------------- app.py: Get Explanation

\* the text area: empty, blanks only, or a question
TextInputs == {"", " ", "What is 2+2?"}

\* if not text_query and not uploaded_file: st.warning(...)
H_GetExplanation ==
    /\ Click("get_explanation")
    /\ \E text \in TextInputs, image \in BOOLEAN :
        /\ image => text # " "
        /\ IF text = "" /\ ~image
           THEN /\ ui' = [NoUi EXCEPT !.shown = "warning_input"]
                /\ UNCHANGED <<session, pc>>
           ELSE /\ ui' = [NoUi EXCEPT !.text = text, !.image = image]
                /\ session' = Running(session, "Generating Explanation")
                /\ pc' = "ge_process"
    /\ suq' = NoSuq
    /\ sgq' = NoSgq
    /\ gen' = NoGen
    /\ stack' = <<>>

\* the normalized query of process_query: the text without surrounding blanks
NormalizedQuery(text) == IF text = " " THEN "" ELSE text

\* agent.process_query: the nothing-to-do signal when text and image are both
\* absent, else the entries retrieval found (none when retrieval failed)
ProcessQuery(text, image, out) ==
    IF NormalizedQuery(text) = "" /\ ~image
    THEN [sentinel |-> TRUE, relevant |-> <<>>]
    ELSE [sentinel |-> FALSE, relevant |-> RetrieveOrEmpty(out).rel]

GE_ProcessQuery ==
    /\ pc = "ge_process"
    /\ \E out \in IF NormalizedQuery(ui.text) = "" /\ ~ui.image
                   THEN {ListRet(<<>>)} ELSE SearchOutcomes :
        LET r == ProcessQuery(ui.text, ui.image, out) IN
        /\ Outcome(out, SearchLists)
        /\ ui' = [ui EXCEPT !.sentinel = r.sentinel, !.relevant = r.relevant]
        /\ trace' = Append(trace, Event("process_query", NullId, Len(r.relevant)))
    /\ pc' = "ge_store"
    /\ UNCHANGED <<context, aux, store, session, stack, ret, suq, sgq, gen, ctl,
                   returned_ids>>

\* uid = st.session_state.get('user_id'); if uid: store_user_query(uid, ...)
GE_Store ==
    /\ pc = "ge_store"
    /\ IF session.user_id # NoUser
       THEN /\ StoreUserQueryEnter(session.user_id,
                    IF ui.image THEN 1 ELSE 0, IF ui.image THEN 1 ELSE 0, ncalls)
            /\ stack' = <<"ge_after_store">> \o stack
       ELSE /\ pc' = "ge_check_stop"
            /\ UNCHANGED <<suq, stack>>
    /\ UNCHANGED <<context, aux, store, app, ret, sgq, gen, ctl, returned_ids,
                   trace, faults>>

\* st.session_state.last_query_id = ...; except Exception: pass
GE_AfterStore ==
    /\ pc = "ge_after_store"
    /\ session' = IF ret.kind = "value"
                  THEN [session EXCEPT !.last_query_id = ret.id] ELSE session
    /\ pc' = "ge_check_stop"
    /\ UNCHANGED <<context, aux, store, ui, stack, ret, suq, sgq, gen, ctl,
                   returned_ids, trace, faults>>

\* if relevant is None: the nothing-to-do signal of process_query
NothingToDoIgnored(signal) == FALSE
NothingToDo(signal) == signal

\* if stop_requested: ... rerun;  if relevant is None: ... stop;
\* explanation = agent.generate_explanation(query, relevant, image)
GE_CheckStop ==
    /\ pc = "ge_check_stop"
    /\ IF session.stop_requested
       THEN /\ Finish("cancelled", "")
            /\ UNCHANGED gen
       ELSE IF NothingToDo(ui.sentinel)
       THEN /\ Finish("warning_question", "")
            /\ UNCHANGED gen
       ELSE /\ GenerateExplanationEnter(ui.relevant)
            /\ stack' = <<"ge_after_generate">> \o stack
            /\ UNCHANGED app
    /\ UNCHANGED <<context, aux, store, ret, suq, sgq, ctl, returned_ids,
                   trace, faults>>

\* what a handler shows of the text the service returned
ShownTextDropped(r) == ""
ShownText(r) == r.text

\* the end of a handler's try block: the exception escapes, or the stop flag
\* is checked and the text is shown
AfterCall(here, what) ==
    /\ pc = here
    /\ IF ret.kind = "raise"
       THEN Finish("exception", "")
       ELSE IF session.stop_requested
       THEN Finish("cancelled", "")
       ELSE Finish(what, ShownText(ret))
    /\ UNCHANGED <<context, aux, store, ret, suq, sgq, gen, ctl, returned_ids,
                   trace, faults>>

GE_AfterGenerate == AfterCall("ge_after_generate", "explanation")

\* ------------------------------------------------ app.py: owned topics

\* knowledge_repo.all(): the rows the store lets the active principal read,
\* its own and the public ones
AllLessons ==
    SelectSeq(lessons, LAMBDA l :
        \/ l.visibility = "public"
        \/ knowledge_ctx.user_id # NoUser /\ l.owner_id = knowledge_ctx.user_id)

\* [l for l in all() if l.get('owner_id') and str(l.get('owner_id')) == str(uid)]
Owned(uid) ==
    SelectSeq(AllLessons, LAMBDA l : l.owner_id # NoUser /\ l.owner_id = uid)

\* if not uid: st.info("Sign in ...") else: owned = [...]
ListingUnfiltered(uid) == lessons
Listing(uid) == IF uid = NoUser THEN <<>> ELSE Owned(uid)

\* st.selectbox("Topic:", available_topics): a topic of the user, None
\* without one
SelectableTopics(uid) ==
    IF Listing(uid) = <<>> THEN {"None"}
    ELSE {Listing(uid)[i].topic : i \in DOMAIN Listing(uid)}

\* ----------------------------------------------- app.py: Generate Question

H_GenerateQuestion ==
    /\ Click("generate_question_button")
    /\ \E t \in SelectableTopics(session.user_id) :
        /\ GeneratePracticeQuestionEnter(t)
        /\ ui' = [NoUi EXCEPT !.topic = t]
    /\ session' = Running(session, "Generating Question")
    /\ stack' = <<"gq_after">>
    /\ suq' = NoSuq
    /\ sgq' = NoSgq

\* st.session_state.practice_question = question; st.session_state.topic = topic
GQ_After ==
    /\ pc = "gq_after"
    /\ IF ret.kind = "raise"
       THEN Finish("exception", "")
       ELSE IF session.stop_requested
       THEN Finish("cancelled", "")
       ELSE /\ ui' = [ui EXCEPT !.shown = "question", !.shown_text = ShownText(ret)]
            /\ session' = Finally([session EXCEPT !.practice_question = ShownText(ret),
                                                  !.topic = ui.topic])
            /\ pc' = "idle"
            /\ stack' = <<>>
    /\ UNCHANGED <<context, aux, store, ret, suq, sgq, gen, ctl, returned_ids,
                   trace, faults>>

\* ----------------------------------------------------------- app.py: Submit

\* the Submit button, with an answer typed in
H_Submit ==
    /\ Click("submit")
    /\ session.practice_question # ""
    /\ EvaluateAnswerEnter
    /\ ui' = NoUi
    /\ session' = Running(session, "Evaluating Answer")
    /\ stack' = <<"sb_after">>
    /\ suq' = NoSuq
    /\ sgq' = NoSgq

SB_After == AfterCall("sb_after", "feedback")

\* ---------------------------------------------------------- app.py: topics

\* a click on a widget of the sidebar or of the Practice and Manage tabs
TopicHandler(name) ==
    /\ pc = "idle"
    /\ ncalls < MaxCalls
    /\ ncalls' = ncalls + 1
    /\ op' = name
    /\ trace' = <<>>
    /\ ret' = NoRet
    /\ UNCHANGED <<context, cohere, prompt, store, pc, stack, suq, sgq, gen,
                   returned_ids, faults>>

\* the View Topics button
H_ViewTopics ==
    /\ TopicHandler("view_topics")
    /\ ui' = [NoUi EXCEPT
            !.shown = IF session.user_id = NoUser THEN "info_sign_in" ELSE "topics",
            !.listing = Listing(session.user_id)]
    /\ UNCHANGED <<lessons, session>>

\* the topic selector of the Practice tab
H_PracticeTopics ==
    /\ TopicHandler("practice_topics")
    /\ ui' = [NoUi EXCEPT !.shown = "selectbox",
                          !.listing = Listing(session.user_id)]
    /\ UNCHANGED <<lessons, session>>

\* the list of the Manage tab with its Delete and Make Public buttons, and
\* the confirmation of a pending deletion
H_ManageView ==
    /\ TopicHandler("manage")
    /\ ui' = [NoUi EXCEPT
            !.shown = IF session.user_id = NoUser THEN "info_sign_in" ELSE "manage",
            !.listing = Listing(session.user_id),
            !.confirm = IF session.user_id = NoUser THEN NullId
                        ELSE session.delete_pending]
    /\ UNCHANGED <<lessons, session>>

\* knowledge_repo.add(topic, content, subject, level, owner_id=...): the new row
LessonIds == {lessons[i].id : i \in DOMAIN lessons}
NewLessonId ==
    CHOOSE n \in 1..(1 + MaxCalls) :
        /\ 13 + n \notin LessonIds
        /\ \A m \in 1..(n - 1) : 13 + m \in LessonIds
NewLesson(topic, owner) ==
    [id |-> 13 + NewLessonId, topic |-> topic, owner_id |-> owner,
     visibility |-> "private"]

\* the Add form of the Manage tab
H_AddTopic ==
    /\ TopicHandler("add_topic")
    /\ \E new_topic \in {"", "Sets"}, added \in BOOLEAN :
        IF session.user_id = NoUser
        THEN /\ ui' = [NoUi EXCEPT !.shown = "warning_sign_in"]
             /\ UNCHANGED lessons
        ELSE IF new_topic = ""
        THEN /\ ui' = NoUi
             /\ UNCHANGED lessons
        ELSE IF added
        THEN /\ lessons' = Append(lessons, NewLesson(new_topic, session.user_id))
             /\ ui' = [NoUi EXCEPT !.shown = "added"]
        ELSE /\ ui' = [NoUi EXCEPT !.shown = "error_add"]
             /\ UNCHANGED lessons
    /\ UNCHANGED session

\* the Delete button of a listed row: the deletion is left pending
H_Delete ==
    /\ TopicHandler("delete")
    /\ \E i \in DOMAIN Listing(session.user_id) :
        session' = [session EXCEPT
            !.delete_pending = Listing(session.user_id)[i].id,
            !.delete_topic = Listing(session.user_id)[i].topic]
    /\ ui' = NoUi
    /\ UNCHANGED lessons

\* knowledge_repo.delete_lesson(id): the store deletes a row of the active
\* principal only
CanDelete(id) ==
    \E i \in DOMAIN lessons :
        /\ lessons[i].id = id
        /\ knowledge_ctx.user_id # NoUser
        /\ lessons[i].owner_id = knowledge_ctx.user_id

\* Confirm Delete in the confirmation of the Manage tab
H_ConfirmDelete ==
    /\ TopicHandler("confirm_delete")
    /\ session.user_id # NoUser
    /\ session.delete_pending # NullId
    /\ \E success \in BOOLEAN :
        IF success /\ CanDelete(session.delete_pending)
        THEN /\ lessons' = SelectSeq(lessons,
                    LAMBDA l : l.id # session.delete_pending)
             /\ session' = [session EXCEPT !.delete_pending = NullId,
                                           !.delete_topic = ""]
             /\ ui' = [NoUi EXCEPT !.shown = "deleted"]
        ELSE /\ ui' = [NoUi EXCEPT !.shown = "error_delete"]
             /\ UNCHANGED <<lessons, session>>

\* Cancel in the confirmation of the Manage tab
H_CancelDelete ==
    /\ TopicHandler("cancel_delete")
    /\ session.user_id # NoUser
    /\ session.delete_pending # NullId
    /\ session' = [session EXCEPT !.delete_pending = NullId, !.delete_topic = ""]
    /\ ui' = NoUi
    /\ UNCHANGED lessons

\* the Make Public button of a listed row
H_MakePublic ==
    /\ TopicHandler("make_public")
    /\ \E i \in DOMAIN Listing(session.user_id), out \in {"client", "none", "raise"} :
        LET lid == Listing(session.user_id)[i].id IN
        IF out = "client"
        THEN /\ lessons' = [j \in DOMAIN lessons |->
                    IF lessons[j].id = lid
                    THEN [lessons[j] EXCEPT !.visibility = "public"]
                    ELSE lessons[j]]
             /\ ui' = [NoUi EXCEPT !.shown = "made_public"]
        ELSE /\ ui' = [NoUi EXCEPT !.shown = IF out = "none" THEN "warning_store"
                                             ELSE "error_visibility"]
             /\ UNCHANGED lessons
    /\ UNCHANGED session

\* the application: the handlers and the service functions they call
NextApp ==
    \/ H_SignIn
    \/ H_SignUp
    \/ H_SignOut
    \/ H_ViewTopics
    \/ H_StopRequest
    \/ H_GetExplanation
    \/ GE_ProcessQuery
    \/ GE_Store
    \/ GE_AfterStore
    \/ GE_CheckStop
    \/ GE_AfterGenerate
    \/ H_GenerateQuestion
    \/ GQ_After
    \/ H_Submit
    \/ SB_After
    \/ ServiceStep

SpecApp == Init /\ [][NextApp]_vars

\* --------------------------------------------- app.py: accounts and topics

\* the Sign In button, with one of two accounts
H_SignInAs == \E uid \in Accounts : SignedIn(uid)

\* the sidebar and the Practice and Manage tabs, used from two accounts
NextTopics ==
    \/ H_SignInAs
    \/ H_SignOut
    \/ H_ViewTopics
    \/ H_PracticeTopics
    \/ H_ManageView
    \/ H_AddTopic
    \/ H_Delete
    \/ H_ConfirmDelete
    \/ H_CancelDelete
    \/ H_MakePublic

SpecTopics == Init /\ [][NextTopics]_vars


\* ============================================================ CohereClient

\* everything outside the CohereClient
coach == <<context, store, app, pc, stack, ret, suq, sgq, gen, ctl,
           returned_ids, trace, faults>>

DefaultModel == "embed-english-light-v3.0"
DefaultDimension == 384

\* Config.COHERE_MODEL and the model argument; "" stands for None / unset
CfgModels == {"", "small", " Large ", "embed-multilingual-v3.0"}
ModelArgs == {"", "Medium", "embed-custom"}

\* Config.PGVECTOR_DIMENSION; 0 stands for unset (None or 0)
Dims == {0, 2, DefaultDimension}

\* cfg_model.strip().lower()
StripLower(s) == CASE s = " Large " -> "large" [] OTHER -> s

\* self.model = model or cfg_model or 'embed-english-light-v3.0', the
\* configured value dropped when it is one of 'small', 'medium', 'large'
ResolveModel(model, cfg_model) ==
    LET cfg == IF StripLower(cfg_model) \in {"small", "medium", "large"}
               THEN "" ELSE cfg_model
    IN  IF model # "" THEN model
        ELSE IF cfg # "" THEN cfg ELSE DefaultModel

\* CohereClient.__init__: the client exists when there is a key, the cohere
\* module was imported and cohere.Client(api_key) did not raise
CohereInit ==
    /\ cohere.pc = "none"
    /\ \E key \in BOOLEAN, sdk \in BOOLEAN, made \in BOOLEAN,
          m \in ModelArgs, cfg \in CfgModels, d \in Dims :
        cohere' = [NoCohere EXCEPT !.pc = "ready", !.api_key = key,
                                   !.sdk = sdk,
                                   !.client = key /\ sdk /\ made,
                                   !.model_arg = m, !.cfg_model = cfg,
                                   !.model = ResolveModel(m, cfg),
                                   !.dim = d]
    /\ UNCHANGED <<coach, prompt, lessons>>

\* is_available: self._client is not None
IsAvailableAlways(c) == TRUE
IsAvailable(c) == c.client

\* vectors the provider may send: a tag tells them apart, width is len(vector)
VectorPool == {[tag |-> 1, width |-> DefaultDimension],
               [tag |-> 2, width |-> DefaultDimension],
               [tag |-> 3, width |-> 2]}
VectorLists == UNION {[1..k -> VectorPool] : k \in 0..MaxTexts}

\* a provider response: its embeddings in the newer shape (objects with an
\* .embedding attribute) or in the older one (plain vectors)
Response(shape, vs) == [shape |-> shape, embeddings |-> vs]
NewCallResponses ==
    {Response("new", vs) : vs \in VectorLists} \cup
    {Response("old", <<[tag |-> 1, width |-> DefaultDimension]>>)}
OldCallResponses == {Response("old", vs) : vs \in VectorLists}
\* the provider call raised
CallRaised == Response("raise", <<>>)

Failed(e) == [kind |-> "raise", error |-> e, vectors |-> <<>>]
Vectors(vs) == [kind |-> "vectors", error |-> "", vectors |-> vs]

\* embed(texts): if not self.is_available(): raise RuntimeError(...)
EmbedCall ==
    /\ cohere.pc \in {"ready", "done"}
    /\ \E n \in 1..MaxTexts :
        cohere' = IF IsAvailable(cohere)
                  THEN [cohere EXCEPT !.pc = "new_call", !.n = n,
                                      !.calls = <<>>, !.vectors = <<>>,
                                      !.given = <<>>, !.result = NoResult]
                  ELSE [cohere EXCEPT !.pc = "done", !.n = n,
                                      !.calls = <<>>, !.vectors = <<>>,
                                      !.given = <<>>,
                                      !.result = Failed("ProviderUnavailable")]
    /\ UNCHANGED <<coach, prompt, lessons>>

\* vectors = [e.embedding for e in resp.embeddings]: fails on a plain vector
UnwrapFails(resp) == resp.shape = "old" /\ resp.embeddings # <<>>

\* except Exception: the older call is made
FallbackAlways(failed) == TRUE
Fallback(failed) == failed

\* try: resp = self._client.embeddings.create(...); vectors = [...]
EmbedNewCall ==
    /\ cohere.pc = "new_call"
    /\ \E out \in {CallRaised} \cup NewCallResponses :
        LET failed == out = CallRaised \/ UnwrapFails(out) IN
        cohere' = IF Fallback(failed)
                  THEN [cohere EXCEPT !.pc = "old_call",
                            !.calls = Append(@, IF failed THEN "new_failed"
                                                ELSE "new")]
                  ELSE [cohere EXCEPT !.pc = "check",
                            !.calls = Append(@, "new"),
                            !.vectors = out.embeddings,
                            !.given = out.embeddings]
    /\ UNCHANGED <<coach, prompt, lessons>>

\* resp = self._client.embed(...); vectors = resp.embeddings; an exception
\* of the older call leaves embed
EmbedOldCall ==
    /\ cohere.pc = "old_call"
    /\ \E out \in {CallRaised} \cup OldCallResponses :
        cohere' = IF out = CallRaised
                  THEN [cohere EXCEPT !.pc = "done",
                            !.calls = Append(@, "old_failed"),
                            !.result = Failed("ProviderError")]
                  ELSE [cohere EXCEPT !.pc = "check",
                            !.calls = Append(@, "old"),
                            !.vectors = out.embeddings,
                            !.given = out.embeddings]
    /\ UNCHANGED <<coach, prompt, lessons>>

\* dim = getattr(Config, 'PGVECTOR_DIMENSION', 384) or 384
TargetDimension(c) == IF c.dim # 0 THEN c.dim ELSE DefaultDimension

\* if vectors and len(vectors[0]) != int(dim)
DimensionsAccepted(vs, dim) == FALSE
DimensionsDiffer(vs, dim) == vs # <<>> /\ vs[1].width # dim

\* return vectors
ReturnedFirstOnly(vs) == IF vs = <<>> THEN vs ELSE <<vs[1]>>
Returned(vs) == vs

EmbedCheck ==
    /\ cohere.pc = "check"
    /\ cohere' = [cohere EXCEPT
            !.pc = "done",
            !.result = IF DimensionsDiffer(cohere.vectors, TargetDimension(cohere))
                       THEN Failed("DimensionMismatch")
                       ELSE Vectors(Returned(cohere.vectors))]
    /\ UNCHANGED <<coach, prompt, lessons>>

NextEmbed ==
    \/ CohereInit
    \/ EmbedCall
    \/ EmbedNewCall
    \/ EmbedOldCall
    \/ EmbedCheck

SpecEmbed == Init /\ [][NextEmbed]_vars

\* ===================================== set_user_context and its dependants

\* set_user_context with any arguments
SetUserContextAny == SetUserContextCall(ContextArgs)

\* the steps of the functions that read self.current_user_id
PrincipalSteps ==
    \/ EA_Retrieve
    \/ EA_Generate
    \/ EA_GetSupabase
    \/ EA_Insert
    \/ GPQ_Retrieve
    \/ GPQ_Generate
    \/ GPQ_Persist
    \/ GPQ_AfterStore
    \/ SGQ_GetSupabase
    \/ SGQ_Insert

NextContext ==
    \/ SetUserContextAny
    \/ Evaluate
    \/ GeneratePracticeQuestion
    \/ PrincipalSteps

SpecContext == Init /\ [][NextContext]_vars

\* set_user_context called by another thread while a service function is
\* between two of its steps: nothing in CoachService serialises the two
SetUserContextDuring ==
    /\ pc # "idle"
    /\ Cardinality({i \in DOMAIN trace : trace[i].ev = "set_user_context"})
            < MaxSwitches
    /\ \E a \in SessionArgs :
        /\ current_user_id' = UserContextOf(a.u)
        /\ knowledge_ctx' = RepoSetUserContext(UserContextOf(a.u), a.cred)
        /\ current_user_id' # current_user_id
        /\ trace' = Append(trace, Event("set_user_context", UserCode(a.u),
                                        IF a.cred = NoCredentials THEN 0 ELSE 1))
    /\ UNCHANGED <<aux, store, app, pc, stack, ret, suq, sgq, gen, ctl,
                   returned_ids, faults>>

NextConcurrent ==
    \/ SetUserContext
    \/ SetUserContextDuring
    \/ Evaluate
    \/ GeneratePracticeQuestion
    \/ PrincipalSteps

SpecConcurrent == Init /\ [][NextConcurrent]_vars
\* ================================== generate_explanation: prompt assembly

\* everything outside the prompt assembly
rest == <<coach, cohere, lessons>>

Queries == {"", "What is 2+2?"}

\* l.get('similarity', None): a score in units of 0.00001, or no score
NoSim == [given |-> FALSE, value |-> 0]
Sim(v) == [given |-> TRUE, value |-> v]
Similarities == {NoSim, Sim(12346), Sim(87654)}

\* an entry of the list: id, topic, content and similarity
Entry(i, s) == [id |-> i, topic |-> IF i = 1 THEN "algebra" ELSE "geometry",
                content |-> IF i = 1 THEN "lesson one" ELSE "lesson two",
                similarity |-> s]
EntryPool == {Entry(i, s) : i \in {1, 2}, s \in Similarities}
EntryLists == UNION {[1..k -> EntryPool] : k \in 0..MaxEntries}

\* def generate_explanation(self, query, relevant, image=None)
GenerateExplanationCall ==
    /\ prompt.pc = "none"
    /\ \E q \in Queries, l \in EntryLists, img \in BOOLEAN :
        prompt' = [NoPrompt EXCEPT !.pc = "retrieve", !.query = q,
                                   !.relevant = l, !.image = img]
    /\ UNCHANGED rest

\* if not relevant: find_relevant(query, top_k=TOP_K), [] when it raises
PromptRetrieve ==
    /\ prompt.pc = "retrieve"
    /\ IF prompt.relevant = <<>>
       THEN \E out \in {Raised(StoreError)} \cup
                        {ListRet(l) : l \in {e \in EntryLists : Len(e) <= TOP_K}} :
                prompt' = [prompt EXCEPT
                    !.pc = "assemble",
                    !.relevant = IF out.kind = "raise" THEN <<>> ELSE out.rel]
       ELSE prompt' = [prompt EXCEPT !.pc = "assemble"]
    /\ UNCHANGED rest

\* f"{float(sim):.4f}" if sim is not None else "N/A"; value in units of 0.0001
FormatSimilarityShort(sim) ==
    IF sim.given THEN [text |-> "fixed", places |-> 2, value |-> (sim.value + 500) \div 1000]
    ELSE [text |-> "N/A", places |-> 0, value |-> 0]
FormatSimilarity(sim) ==
    IF sim.given THEN [text |-> "fixed", places |-> 4, value |-> (sim.value + 5) \div 10]
    ELSE [text |-> "N/A", places |-> 0, value |-> 0]

\* f"ID: {lid}\nTopic: {topic}\nSimilarity: {sim_str}\n{content_text}\n---"
RetrievedLine(l) ==
    [id |-> l.id, topic |-> l.topic, similarity |-> FormatSimilarity(l.similarity),
     content |-> l.content]

\* "Retrieved documents:\n" + lines, or "Retrieved documents: none available."
RetrievedSection(relevant) ==
    IF relevant # <<>>
    THEN [marker |-> FALSE,
          lines |-> [i \in 1..Len(relevant) |-> RetrievedLine(relevant[i])]]
    ELSE [marker |-> TRUE, lines |-> <<>>]

\* f"{retrieved_section}\n\nQuestion: {query}\n\nProvide a clear, ..."
UserPrompt(query, relevant) ==
    [retrieved |-> RetrievedSection(relevant), question |-> query]
NoUserPrompt == [retrieved |-> [marker |-> FALSE, lines |-> <<>>], question |-> ""]

\* the parts of the user turn: the image with its pixel hints, then the text
ImagePart == [type |-> "image", image |-> TRUE, hints |-> TRUE, text |-> NoUserPrompt]
TextPart(p) == [type |-> "text", image |-> FALSE, hints |-> FALSE, text |-> p]
Content(query, relevant, image) ==
    (IF image THEN <<ImagePart>> ELSE <<>>) \o <<TextPart(UserPrompt(query, relevant))>>

\* messages = [{'role': 'system', ...}, {'role': 'user', 'content': content}]
Messages(query, relevant, image) ==
    <<[role |-> "system", content |-> <<>>],
      [role |-> "user", content |-> Content(query, relevant, image)]>>

PromptAssemble ==
    /\ prompt.pc = "assemble"
    /\ prompt' = [prompt EXCEPT
            !.pc = "generate",
            !.messages = Messages(prompt.query, prompt.relevant, prompt.image)]
    /\ UNCHANGED rest

\* return self.model_handler.generate(messages)
PromptGenerate ==
    /\ prompt.pc = "generate"
    /\ prompt' = [prompt EXCEPT !.pc = "done"]
    /\ UNCHANGED rest

NextPrompt ==
    \/ GenerateExplanationCall
    \/ PromptRetrieve
    \/ PromptAssemble
    \/ PromptGenerate

SpecPrompt == Init /\ [][NextPrompt]_vars


\* ================================================================ properties

EvIdx(S) == {i \in DOMAIN trace : trace[i].ev \in S}
Has(S) == EvIdx(S) # {}
Before(A, B) == \A i \in EvIdx(A), j \in EvIdx(B) : i < j

Uploads == {"upload", "upload_raise"}
Embeds == {"embed", "embed_raise"}
Inserts == {"insert", "insert_raise"}
Updates == {"update", "update_raise"}
IndexWrites == {"add_embedding", "add_embedding_raise"}

\* the steps of store_user_query whose exception ends the call
FatalEvents == {"upload_raise", "embed_raise", "get_supabase_raise",
                "insert_raise", "add_embedding_raise"}

\* store_user_query has just returned to its caller
SuqReturned ==
    /\ suq.call # 0
    /\ suq.call = ncalls
    /\ ret.kind # "none"
    /\ \/ op = "submit_query" /\ pc = "idle"
       \/ pc = "ge_after_store"

\* the attachment rows the current store_user_query call created
MyAttachments == {a \in DOMAIN attachments : attachments[a].call = suq.call}

\* the UserQuery insert of the current call failed: it raised or gave no row
InsertFailed ==
    \/ Has({"insert_raise"})
    \/ \E i \in EvIdx({"insert"}) : trace[i].a = NullId

\* a directly called operation has finished
Done(name) == pc = "idle" /\ op = name /\ ret.kind # "none"

\* C1: when store_user_query returns a non-null id, every attachment row the
\* call created has query_id equal to that id and metadata.index equal to the
\* attachment's position in the supplied list.
C1_AttachmentLinkage ==
    (SuqReturned /\ ret.kind = "value" /\ ret.id # NullId) =>
        \A a \in MyAttachments :
            /\ attachments[a].query_id = ret.id
            /\ attachments[a].metadata.index = attachments[a].pos

EmbedFailed ==
    \E i \in EvIdx({"embed_raise", "search_raise"}) : trace[i].b \in {1, 2}

GenerateOps == {"evaluate", "generate_practice_question", "generate_explanation"}

\* C3 as stated: in every operation that embeds text, a DimensionMismatch or
\* ProviderUnavailable failure reaches the caller as that failure.
C3_EmbeddingFailurePropagates ==
    (pc = "idle" /\ ret.kind # "none" /\ EmbedFailed) =>
        ret.kind = "raise" /\ ret.text \in EmbedErrors

\* C3 amended: such a failure reaches the caller of find_relevant only;
\* store_user_query turns it into a null result, and generate_explanation,
\* generate_practice_question and evaluate_answer go on with no retrieved
\* entries and never raise it.
C3_EmbeddingFailureAbsorbed ==
    (pc = "idle" /\ ret.kind # "none" /\ EmbedFailed) =>
        /\ op = "find_relevant" =>
                /\ ret.kind = "raise"
                /\ ret.text \in EmbedErrors
                /\ ErrCode(ret.text) = trace[1].b
        /\ op = "submit_query" => ret = IdRet(NullId)
        /\ op \in GenerateOps =>
                /\ gen.relevant = <<>>
                /\ ret.kind = "raise" => ret.text = ModelError
                /\ ret.kind = "value" => Has({"generate"})

C3_Witness ==
    /\ Done("evaluate")
    /\ EmbedFailed
    /\ ret.kind = "value"
    /\ ret.text \in ModelOutputs

HandlerOps == {"get_explanation", "generate_question_button", "submit"}

ShownFor(o) ==
    CASE o = "get_explanation" -> "explanation"
      [] o = "generate_question_button" -> "question"
      [] o = "submit" -> "feedback"
      [] OTHER -> ""

\* C4: in the Get Explanation, Generate Question and Submit flows, whenever
\* the model call succeeded the service returned exactly the model's text and,
\* unless the user cancelled, that text is what is shown, whatever the
\* outcomes of retrieval and of the recording writes.
C4_PersistenceNeverBlocks ==
    (pc = "idle" /\ op \in HandlerOps /\ Has({"generate"})) =>
        /\ ret = TextRet(GeneratedText)
        /\ ui.shown # "cancelled" =>
                ui.shown = ShownFor(op) /\ ui.shown_text = GeneratedText

C4_Witness ==
    /\ pc = "idle"
    /\ op = "generate_question_button"
    /\ Has({"insert_question_raise"})
    /\ ui.shown = "question"
    /\ ui.shown_text = GeneratedText

\* C5: store_generated_question, reached through
\* CoachController.generate_question, returns an id or null and never raises,
\* also when the store insert fails.
C5_RecorderNeverRaises ==
    (Done("generate_question") /\ ~Has({"get_supabase_raise"})) =>
        ret.kind = "value"

\* C6: in store_user_query every upload precedes the embedding, the embedding
\* precedes the UserQuery insert, every back-fill update follows an insert
\* that returned the id of an existing row, and an attachment row that was
\* never updated has query_id = null.
C6_TwoPhaseOrdering ==
    /\ Before(Uploads, Embeds)
    /\ Before(Embeds, Inserts)
    /\ Before(Inserts, Updates)
    /\ Has(Embeds) => Cardinality(EvIdx(Uploads)) = suq.n
    /\ Has(Inserts) => Has({"embed"})
    /\ \A j \in EvIdx(Updates) :
            \E i \in EvIdx({"insert"}) :
                i < j /\ trace[i].a # NullId /\ trace[i].a \in DOMAIN user_queries
    /\ \A a \in DOMAIN attachments :
            /\ attachments[a].updates = 0 => attachments[a].query_id = NullId
            /\ attachments[a].query_id # NullId =>
                    attachments[a].query_id \in DOMAIN user_queries

C6_Witness ==
    /\ Done("submit_query")
    /\ suq.n = 2
    /\ Cardinality(EvIdx({"update"})) = 2
    /\ ret.id # NullId

\* C7: if the UserQuery insert raises or returns no row after attachments were
\* uploaded, store_user_query returns null, no back-fill update is issued, the
\* call's attachments keep query_id = null, and no index row is written.
C7_OrphanOnInsertFailure ==
    (SuqReturned /\ InsertFailed) =>
        /\ ret = IdRet(NullId)
        /\ ~Has(Updates)
        /\ ~Has(IndexWrites)
        /\ \A a \in MyAttachments :
                attachments[a].query_id = NullId /\ attachments[a].updates = 0
        /\ \A q \in DOMAIN user_queries : user_queries[q].call # suq.call

C7_Witness ==
    SuqReturned /\ InsertFailed /\ MyAttachments # {} /\ ret = IdRet(NullId)

\* C8 as stated: after any sequence of store_user_query calls every UserQuery
\* row has an Embedding record keyed ('user_queries', id).
C8_EveryQueryIndexed ==
    pc = "idle" =>
        \A q \in DOMAIN user_queries : <<"user_queries", q>> \in embeddings

\* C8 amended: every UserQuery row whose id store_user_query returned has an
\* Embedding record keyed ('user_queries', id), written after the insert of
\* that row; index rows exist for inserted rows only.
C8_ReturnedQueriesIndexed ==
    /\ \A q \in returned_ids :
            q \in DOMAIN user_queries /\ <<"user_queries", q>> \in embeddings
    /\ \A e \in embeddings : e[1] = "user_queries" /\ e[2] \in DOMAIN user_queries
    /\ \A j \in EvIdx({"add_embedding"}) :
            \E i \in EvIdx({"insert"}) : i < j /\ trace[i].a = trace[j].a

C8_Witness ==
    /\ pc = "idle"
    /\ returned_ids # {}
    /\ \E q \in DOMAIN user_queries : <<"user_queries", q>> \notin embeddings

\* a store connection was obtained during the current operation
Connected == \E i \in EvIdx({"get_supabase"}) : trace[i].a = 1

\* C9: evaluate_answer issues the AnswerRecord insert if and only if a store
\* connection exists and a principal is authenticated; the record carries that
\* principal and the model's text; in every case the model's text is returned.
C9_AnswerRecordGuard ==
    (Done("evaluate") /\ Has({"generate"})) =>
        /\ ret = TextRet(GeneratedText)
        /\ Has({"insert_answer", "insert_answer_raise"}) <=>
                (Connected /\ current_user_id # NoUser)
        /\ Cardinality(EvIdx({"insert_answer", "insert_answer_raise"})) <= 1
        /\ \A i \in EvIdx({"insert_answer"}) :
                /\ trace[i].a = Len(answers)
                /\ answers[trace[i].a].user_id = current_user_id
                /\ answers[trace[i].a].user_id # NoUser
                /\ answers[trace[i].a].model_answer = GeneratedText

C9_Witness ==
    /\ Done("evaluate")
    /\ Has({"insert_answer"})
    /\ ret.text \in ModelOutputs

QuestionInserts == {"insert_question", "insert_question_raise"}

\* C10: store_generated_question performs no write and returns null without a
\* store connection; with one it performs exactly one insert into
\* generated_questions and returns the inserted row's id, null if the insert
\* returned no row.
C10_SingleInsert ==
    Done("generate_question") =>
        /\ ~Connected => ~Has(QuestionInserts)
        /\ (Has({"get_supabase"}) /\ ~Connected) => ret = IdRet(NullId)
        /\ Connected => Cardinality(EvIdx(QuestionInserts)) = 1
        /\ \A i \in EvIdx({"insert_question"}) :
                /\ ret = IdRet(trace[i].a)
                /\ trace[i].a # NullId =>
                        /\ trace[i].a = Len(generated_questions)
                        /\ generated_questions[trace[i].a] = sgq

C10_Witness ==
    /\ Done("generate_question")
    /\ ret.id # NullId
    /\ ret.id = Len(generated_questions)

\* C11: when embedding the query fails, find_relevant returns an empty
\* sequence to its caller instead of the failure.
C11_FindRelevantAbsorbs ==
    (Done("find_relevant") /\ EmbedFailed) => ret = ListRet(<<>>)

Searches == {"search", "search_raise"}

\* C12: when top_k is not supplied find_relevant searches with the configured
\* default; when top_k is 0 or negative no search is issued with a value other
\* than the supplied one (nothing is substituted or clamped).
C12_TopKBoundary ==
    Done("find_relevant") =>
        /\ ~gen.top_k.given => \A i \in EvIdx(Searches) : trace[i].a = TOP_K
        /\ (gen.top_k.given /\ gen.top_k.value <= 0) =>
                \A i \in EvIdx(Searches) : trace[i].a = gen.top_k.value

\* an embed call has ended after a provider call gave it vectors
GotVectors ==
    /\ cohere.pc = "done"
    /\ cohere.calls # <<>>
    /\ cohere.calls[Len(cohere.calls)] \in {"new", "old"}

\* C13 as stated: embed fails with DimensionMismatch if any returned vector's
\* width differs from the target dimension, and otherwise returns the
\* provider's vectors unchanged, one per input.
C13_EveryWidthChecked ==
    GotVectors =>
        LET D == TargetDimension(cohere) IN
        IF \E i \in DOMAIN cohere.given : cohere.given[i].width # D
        THEN cohere.result = Failed("DimensionMismatch")
        ELSE /\ cohere.result = Vectors(cohere.given)
             /\ Len(cohere.result.vectors) = cohere.n

\* C13 amended: embed fails with DimensionMismatch if the first returned
\* vector's width differs from the target dimension (384 when none is
\* configured), and otherwise returns the provider's vectors unchanged: the
\* same vectors in the same order.
C13_FirstWidthChecked ==
    GotVectors =>
        LET D == IF cohere.dim = 0 THEN DefaultDimension ELSE cohere.dim IN
        IF cohere.given # <<>> /\ cohere.given[1].width # D
        THEN cohere.result = Failed("DimensionMismatch")
        ELSE cohere.result = Vectors(cohere.given)

C13_Witness ==
    /\ GotVectors
    /\ cohere.result.kind = "vectors"
    /\ Len(cohere.result.vectors) = 2
    /\ cohere.result.vectors[1].tag # cohere.result.vectors[2].tag

\* C14: without a credential or a client, embed fails with
\* ProviderUnavailable before any provider call is made; an empty result
\* never stands for an unavailable provider.
C14_ProviderUnavailable ==
    /\ (cohere.pc # "none" /\ ~(cohere.api_key /\ cohere.sdk)) => ~cohere.client
    /\ (cohere.pc \notin {"none", "ready"} /\ ~cohere.client) =>
            /\ cohere.pc = "done"
            /\ cohere.calls = <<>>
            /\ cohere.result = Failed("ProviderUnavailable")
    /\ cohere.result.kind = "vectors" => cohere.client

C14_Witness ==
    /\ cohere.pc = "done"
    /\ ~cohere.api_key
    /\ cohere.n = 2
    /\ cohere.result = Failed("ProviderUnavailable")

\* C15: embed makes the newer provider call first and the older one only
\* after the newer attempt failed; the same dimension check is applied to the
\* vectors of whichever call succeeded, and after a DimensionMismatch no
\* further provider call is made.
C15_FallbackOrdering ==
    LET c == cohere.calls
        D == IF cohere.dim = 0 THEN DefaultDimension ELSE cohere.dim
    IN  /\ Len(c) <= 2
        /\ c # <<>> => c[1] \in {"new", "new_failed"}
        /\ \A i \in DOMAIN c :
                c[i] \in {"old", "old_failed"} => i = 2 /\ c[1] = "new_failed"
        /\ GotVectors =>
                (cohere.result = Failed("DimensionMismatch")
                    <=> (cohere.given # <<>> /\ cohere.given[1].width # D))
        /\ cohere.result = Failed("DimensionMismatch") =>
                c \in {<<"new">>, <<"new_failed", "old">>}

C15_Witness ==
    /\ cohere.pc = "done"
    /\ cohere.calls = <<"new_failed", "old">>
    /\ cohere.result = Failed("DimensionMismatch")

\* C16: set_user_context is defined for every principal and every credential
\* pair; a second call with the same arguments leaves the state of the first;
\* a null principal leaves the current principal null, and while it is null
\* evaluate_answer and generate_practice_question write no record.
C16_SetContextIdempotent ==
    /\ [](op = "set_user_context" =>
            /\ trace[1].a \in {0, 1} =>
                    current_user_id = NoUser /\ knowledge_ctx.user_id = NoUser
            /\ trace[1].a = 2 =>
                    current_user_id \in Users /\ knowledge_ctx.user_id = current_user_id
            /\ trace[1].b = 0 <=> knowledge_ctx.access_token = "None"
            /\ trace[1].b = 0 <=> knowledge_ctx.refresh_token = "None")
    /\ [](pc = "idle" =>
            \A a \in ContextArgs : ENABLED SetUserContextCall({a}))
    /\ [][(op = "set_user_context" /\ op' = "set_user_context" /\ trace' = trace)
            => (current_user_id' = current_user_id /\ knowledge_ctx' = knowledge_ctx)]_vars
    /\ [][current_user_id = NoUser =>
            (answers' = answers /\ generated_questions' = generated_questions)]_vars

C16_Witness ==
    /\ op = "set_user_context"
    /\ trace[1].a = 0
    /\ trace[1].b = 1
    /\ current_user_id = NoUser
    /\ answers # <<>>

\* C17: an evaluate_answer call never writes an AnswerRecord with a null
\* user_id, nor one whose user_id differs from the principal that passed its
\* authentication check, also when set_user_context runs during the call.
C17_AtomicContextRead ==
    op = "evaluate" =>
        \A i \in EvIdx({"insert_answer"}) :
            /\ answers[trace[i].a].user_id # NoUser
            /\ \A g \in EvIdx({"get_supabase"}) :
                    g < i => UserCode(answers[trace[i].a].user_id) = trace[g].b

Retrievals == {"process_query", "search", "search_raise"}
Generations == {"generate", "generate_raise"}

\* C18: in the Get Explanation, Generate Question and Submit handlers a stop
\* requested before retrieval completed keeps the model from being invoked,
\* and a stop requested before the final check keeps the generated output
\* from being shown or stored.
C18_CooperativeCancellation ==
    (pc = "idle" /\ op \in HandlerOps) =>
        /\ \A s \in EvIdx({"stop"}), r \in EvIdx(Retrievals),
              g \in EvIdx(Generations) : ~(s < r /\ r < g)
        /\ Has({"stop"}) => ui.shown \notin {"explanation", "question", "feedback"}
        /\ \A s \in EvIdx({"stop"}),
              w \in EvIdx({"insert_question", "insert_answer"}) : ~(s < w)

\* C19: when text and image are both absent the Get Explanation flow gives
\* the nothing-to-do signal, never an empty list of entries, and the model is
\* not invoked; an empty list of entries is a different outcome, after which
\* generation proceeds.
C19_NothingToDoSentinel ==
    op = "get_explanation" =>
        /\ (ui.text = "" /\ ~ui.image) =>
                /\ pc = "idle"
                /\ ui.shown = "warning_input"
                /\ ~Has({"process_query"} \cup Generations)
        /\ Has({"process_query"}) =>
                (ui.sentinel <=> (ui.text \in {"", " "} /\ ~ui.image))
        /\ ui.sentinel =>
                /\ ~Has(Searches \cup Generations)
                /\ pc = "idle" => ui.shown \in {"warning_question", "cancelled"}
        /\ (pc = "idle" /\ Has({"process_query"}) /\ ~ui.sentinel
                /\ ui.relevant = <<>> /\ ~Has({"stop"})) =>
                Has(Generations)

C19_Witness ==
    /\ pc = "idle"
    /\ op = "get_explanation"
    /\ ui.sentinel
    /\ ui.relevant = <<>>
    /\ ui.shown = "warning_question"

\* the user turn of the assembled messages and its text part
UserTurn == prompt.messages[2].content
UserText == UserTurn[Len(UserTurn)].text
Assembled == prompt.pc \in {"generate", "done"}

\* a rendered score shows 4 decimal places and is the nearest such value
FourDecimals(shown, sim) ==
    /\ shown.text = "fixed"
    /\ shown.places = 4
    /\ 10 * shown.value - sim.value \in -5..5

\* the lines give id, topic and content of every entry, in the given order
ListsEveryEntry ==
    /\ Len(UserText.retrieved.lines) = Len(prompt.relevant)
    /\ \A i \in 1..Len(prompt.relevant) :
        /\ UserText.retrieved.lines[i].id = prompt.relevant[i].id
        /\ UserText.retrieved.lines[i].topic = prompt.relevant[i].topic
        /\ UserText.retrieved.lines[i].content = prompt.relevant[i].content

\* marker iff the list is empty; the literal question; the image first
MarkerQuestionImage ==
    /\ UserText.retrieved.marker <=> prompt.relevant = <<>>
    /\ UserText.question = prompt.query
    /\ UserTurn[Len(UserTurn)].type = "text"
    /\ prompt.image => UserTurn[1].type = "image" /\ Len(UserTurn) = 2
    /\ ~prompt.image => Len(UserTurn) = 1

\* C20 as stated: the user turn built by generate_explanation holds the
\* no-documents marker iff the entry list is empty, otherwise lists every
\* entry in order with its similarity shown to 4 decimal places; it always
\* holds the literal question, and an image, when present, comes first.
C20_SimilarityAlwaysFourDecimals ==
    Assembled =>
        /\ MarkerQuestionImage
        /\ ListsEveryEntry
        /\ \A i \in 1..Len(prompt.relevant) :
            FourDecimals(UserText.retrieved.lines[i].similarity,
                         prompt.relevant[i].similarity)

\* C20 amended: as above, with the similarity shown to 4 decimal places when
\* the entry carries one and as "N/A" when it carries none.
C20_PromptAssemblyContent ==
    Assembled =>
        /\ MarkerQuestionImage
        /\ ListsEveryEntry
        /\ \A i \in 1..Len(prompt.relevant) :
            IF prompt.relevant[i].similarity.given
            THEN FourDecimals(UserText.retrieved.lines[i].similarity,
                              prompt.relevant[i].similarity)
            ELSE UserText.retrieved.lines[i].similarity.text = "N/A"

\* C20 witness: a prompt assembled with an image from two entries, the first
\* with a similarity and the second without
C20_Witness ==
    /\ prompt.pc = "done"
    /\ prompt.image
    /\ Len(prompt.relevant) = 2
    /\ prompt.relevant[1].similarity.given
    /\ ~prompt.relevant[2].similarity.given
    /\ UserText.retrieved.lines[2].similarity.text = "N/A"
    /\ UserTurn[1].type = "image"

\* C21: generate_explanation runs the retrieval once when it is handed no
\* entries and not at all when it is handed some; generate_practice_question
\* and evaluate_answer always run it once; and whenever the retrieval fails
\* or gives an empty list the model is still invoked exactly once, with a
\* prompt holding no entries.
C21_RetrievalReRun ==
    (pc = "idle" /\ ret.kind # "none" /\ op \in GenerateOps) =>
        /\ op = "generate_explanation" =>
                Cardinality(EvIdx(Searches)) = IF gen.supplied = <<>> THEN 1 ELSE 0
        /\ op # "generate_explanation" => Cardinality(EvIdx(Searches)) = 1
        /\ (\E i \in EvIdx(Searches) : trace[i].ev = "search_raise" \/ trace[i].b = 0) =>
                /\ Cardinality(EvIdx(Generations)) = 1
                /\ \A g \in EvIdx({"generate"}) : trace[g].b = 0

\* C21 witness: generate_explanation handed no entries, its retrieval failed
\* and the model answered
C21_Witness ==
    /\ Done("generate_explanation")
    /\ gen.supplied = <<>>
    /\ Has({"search_raise"})
    /\ \E g \in EvIdx({"generate"}) : trace[g].b = 0
    /\ ret.kind = "value"

\* the calls that write to the store, whether they succeed or raise
StoreWrites == {"upload", "upload_raise", "insert", "insert_raise", "update",
                "update_raise", "add_embedding", "add_embedding_raise",
                "insert_question", "insert_question_raise", "insert_answer",
                "insert_answer_raise"}

\* C22: once the user has signed out, View Topics lists only public entries
\* and none of an account of the application, the service holds no principal
\* and no credentials, and no handler run while signed out writes to the
\* store.
C22_SignOutScoping ==
    session.user_id = NoUser =>
        /\ current_user_id = NoUser
        /\ knowledge_ctx = NoContext
        /\ op = "view_topics" =>
                \A i \in DOMAIN ui.listing :
                    /\ ui.listing[i].visibility = "public"
                    /\ ui.listing[i].owner_id \notin Users
        /\ op \in HandlerOps => ~Has(StoreWrites)

\* C22 witness: u1 stored a query, signed out, and View Topics then listed
\* nothing although u1's rows are still in the table
C22_Witness ==
    /\ session.user_id = NoUser
    /\ op = "view_topics"
    /\ ui.shown = "info_sign_in"
    /\ ui.listing = <<>>
    /\ \E q \in DOMAIN user_queries : user_queries[q].user_id = "u1"
    /\ \E i \in DOMAIN lessons : lessons[i].owner_id = "u1"

TopicListings == {"view_topics", "practice_topics", "manage"}

\* C23: the topic listing, the practice-topic selector and the Manage view
\* with its Delete and Make Public actions expose only rows owned by the
\* signed-in user; a topic is added only when signed in and is owned by the
\* signed-in user; a signed-out user lists and mutates nothing.
C23_OwnershipScoping ==
    /\ op \in TopicListings =>
            \A i \in DOMAIN ui.listing :
                /\ session.user_id # NoUser
                /\ ui.listing[i].owner_id = session.user_id
    /\ (op = "manage" /\ ui.confirm # NullId) =>
            /\ session.user_id # NoUser
            /\ \A i \in DOMAIN lessons :
                    lessons[i].id = ui.confirm =>
                        lessons[i].owner_id = session.user_id
    /\ (op = "add_topic" /\ ui.shown = "added") =>
            /\ session.user_id # NoUser
            /\ lessons[Len(lessons)].owner_id = session.user_id
    /\ session.user_id = NoUser =>
            /\ op \notin {"delete", "confirm_delete", "cancel_delete", "make_public"}
            /\ op = "add_topic" => ui.shown = "warning_sign_in"

\* topics that are equal when case and surrounding blanks are ignored
SameTopic(a, b) ==
    \E c \in {{"ALGEBRA ", " algebra", "Algebra"}, {"Geometry"}, {"History"}} :
        a \in c /\ b \in c

\* C24: generate_practice_question stores a GeneratedQuestion only with an
\* authenticated principal; the row's lesson_id is the id of the first cached
\* entry whose topic equals the requested one ignoring case and surrounding
\* blanks, null when there is none, and its query_id is null.
C24_LessonResolution ==
    op = "generate_practice_question" =>
        /\ Has(QuestionInserts) => current_user_id # NoUser
        /\ \A i \in EvIdx({"insert_question"}) :
            trace[i].a # NullId =>
                LET row == generated_questions[trace[i].a] IN
                /\ row.query_id = NullId
                /\ row.lesson_id = NullId =>
                        \A k \in DOMAIN LessonCache :
                            ~SameTopic(LessonCache[k].topic, gen.topic)
                /\ row.lesson_id # NullId =>
                        \E k \in DOMAIN LessonCache :
                            /\ LessonCache[k].id = row.lesson_id
                            /\ SameTopic(LessonCache[k].topic, gen.topic)
                            /\ \A j \in 1..(k - 1) :
                                    ~SameTopic(LessonCache[j].topic, gen.topic)

\* C24 witness: a question about "ALGEBRA " stored with the id of " algebra",
\* the first of the two cached entries that match
C24_Witness ==
    /\ Done("generate_practice_question")
    /\ gen.topic = "ALGEBRA "
    /\ \E i \in EvIdx({"insert_question"}) :
            /\ trace[i].a # NullId
            /\ generated_questions[trace[i].a].lesson_id = 12
            /\ generated_questions[trace[i].a].query_id = NullId

\* the spellings of the legacy aliases 'small', 'medium', 'large'
LegacyAliases == {"small", " Large ", "Medium"}

\* the value the client selects: the model argument, else the configured one
SelectedModel == IF cohere.model_arg # "" THEN cohere.model_arg ELSE cohere.cfg_model

\* C25 as stated: no legacy alias is ever forwarded to the provider as the
\* model, and when the selected value is such an alias the default model is
\* used instead.
C25_NoAliasForwarded ==
    cohere.pc # "none" =>
        /\ cohere.calls # <<>> => cohere.model \notin LegacyAliases
        /\ SelectedModel \in LegacyAliases => cohere.model = DefaultModel

\* the UserQuery rows the current store_user_query call inserted
MyQueryRows == {q \in DOMAIN user_queries : user_queries[q].call = suq.call}

\* C26 as stated: whenever store_user_query returns null, the call inserted
\* no UserQuery row.
C26_NullMeansNothingRecorded ==
    (SuqReturned /\ ret = IdRet(NullId)) => MyQueryRows = {}

\* C26 amended: whenever store_user_query returns null, the call inserted no
\* UserQuery row, unless the index write failed after the insert: then the
\* inserted row stays, without an Embedding record.
C26_NullUnlessIndexWriteFailed ==
    (SuqReturned /\ ret = IdRet(NullId)) =>
        \/ MyQueryRows = {}
        \/ /\ Has({"add_embedding_raise"})
           /\ \A q \in MyQueryRows : <<"user_queries", q>> \notin embeddings

\* C26 witness: the insert gave a row, the index write raised, and the call
\* returned null with the row in the table
C26_Witness ==
    /\ SuqReturned
    /\ ret = IdRet(NullId)
    /\ MyQueryRows # {}
    /\ Has({"add_embedding_raise"})

\* the back-fill of the current call attempted the update of attachment aid
UpdateAttempted(aid) == \E i \in EvIdx(Updates) : trace[i].a = aid

\* the index write of the current call succeeded for query id qid
IndexWritten(qid) == \E i \in EvIdx({"add_embedding"}) : trace[i].a = qid

\* C27: when the update of one attachment fails during back-fill,
\* store_user_query still attempts the update of every other attachment id it
\* collected, still calls the index write for the inserted query id, and,
\* that write succeeding, the index row exists and the call returns that id.
C27_BackfillFailureIsolated ==
    (SuqReturned /\ Has({"update_raise"})) =>
        /\ suq.qid # NullId
        /\ \A k \in DOMAIN suq.attachment_ids :
                UpdateAttempted(suq.attachment_ids[k])
        /\ \E i \in EvIdx(IndexWrites) :
                /\ trace[i].a = suq.qid
                /\ \A j \in EvIdx(Updates) : j < i
        /\ IndexWritten(suq.qid) =>
                /\ <<"user_queries", suq.qid>> \in embeddings
                /\ ret = IdRet(suq.qid)

\* C27 witness: two attachments, the update of the first failed, the second
\* was updated, the index row was written and the query id returned
C27_Witness ==
    /\ SuqReturned
    /\ Len(suq.attachment_ids) = 2
    /\ \E i \in EvIdx({"update_raise"}), j \in EvIdx({"update"}) :
            /\ i < j
            /\ trace[i].a = suq.attachment_ids[1]
            /\ trace[j].a = suq.attachment_ids[2]
    /\ IndexWritten(suq.qid)
    /\ ret = IdRet(suq.qid)
    /\ suq.qid # NullId

\* the first field of each event of a list of events
EventTargets(evs) == [k \in DOMAIN evs |-> evs[k].a]

\* the ids of the uploads of the current call that returned an id, in upload order
UploadedIds ==
    EventTargets(SelectSeq(trace, LAMBDA e : e.ev = "upload" /\ e.a # NullId))

\* the rows the back-fill of the current call called table_update for, in order
UpdateTargets == EventTargets(SelectSeq(trace, LAMBDA e : e.ev \in Updates))

\* the table_update of the current call for attachment aid succeeded
UpdateDone(aid) == \E i \in EvIdx({"update"}) : trace[i].a = aid

\* the inserted row lists the ids the uploads of the call returned, in order
ListsUploadedIds ==
    \A q \in MyQueryRows : user_queries[q].image_attachment_ids = UploadedIds

\* a step changes an attachment row only in the back-fill of the call that
\* uploaded it, and only a row that no update has changed yet
BackfillFrame ==
    \A a \in DOMAIN attachments :
        attachments'[a] # attachments[a] =>
            /\ pc = "suq_backfill"
            /\ attachments[a].call = suq.call
            /\ a = suq.attachment_ids[suq.idx + 1]
            /\ attachments[a].updates = 0

\* C28 as stated: the inserted UserQuery row lists exactly the ids the uploads
\* of the call returned, in upload order, and the back-fill has updated each
\* of those attachment rows exactly once.
C28_EachRowUpdatedOnce ==
    (SuqReturned /\ suq.qid # NullId) =>
        /\ ListsUploadedIds
        /\ \A k \in DOMAIN UploadedIds : attachments[UploadedIds[k]].updates = 1

\* what C28 requires of a finished call once a failed update is allowed for
BackfillTouchesOwnRows ==
    SuqReturned =>
        /\ ListsUploadedIds
        /\ suq.attachment_ids = UploadedIds
        /\ UpdateTargets = (IF suq.qid # NullId THEN UploadedIds ELSE <<>>)
        /\ \A a \in MyAttachments :
                attachments[a].updates = (IF UpdateDone(a) THEN 1 ELSE 0)

\* C28 amended: the inserted UserQuery row lists exactly the ids the uploads
\* of the call returned, in upload order; the back-fill calls the update for
\* exactly those attachment rows, once each and in that order; a row whose
\* update succeeds is changed once, a row whose update fails is not changed;
\* no step changes an attachment row of another call.
C28_BackfillUpdatesOwnRowsOnce ==
    []BackfillTouchesOwnRows /\ [][BackfillFrame]_vars

\* C28 witness: a second call, with two uploads that returned ids, finished
\* with both rows updated once while rows of the first call exist
C28_Witness ==
    /\ SuqReturned
    /\ suq.qid # NullId
    /\ Len(UploadedIds) = 2
    /\ UpdateTargets = UploadedIds
    /\ \A k \in DOMAIN UploadedIds : attachments[UploadedIds[k]].updates = 1
    /\ \E a \in DOMAIN attachments : attachments[a].call # suq.call

\* the operation type each of the three handlers marks as running
OperationTypeOf(name) ==
    CASE name = "get_explanation" -> "Generating Explanation"
      [] name = "generate_question_button" -> "Generating Question"
      [] name = "submit" -> "Evaluating Answer"
      [] OTHER -> "None"

\* no handler is running: the operation state is reset
OperationStateReset ==
    /\ ~session.operation_running
    /\ session.operation_type = "None"
    /\ ~session.stop_requested

\* whenever no handler is running the operation state is reset, and an
\* operation marked running is the one of the handler that is running
OperationStateOfHandler ==
    /\ pc = "idle" => OperationStateReset
    /\ session.operation_running =>
            /\ pc # "idle"
            /\ op \in {"get_explanation", "generate_question_button", "submit"}
            /\ session.operation_type = OperationTypeOf(op)

\* an operation is marked running only by a handler that starts from a state
\* where none is running, and while it is marked no other one starts
OperationStartsFromReset ==
    /\ (~session.operation_running /\ session'.operation_running) =>
            /\ pc = "idle"
            /\ OperationStateReset
            /\ ncalls' = ncalls + 1
    /\ (session.operation_running /\ session'.operation_running) =>
            /\ ncalls' = ncalls
            /\ op' = op
            /\ session'.operation_type = session.operation_type

\* C29: after a Get Explanation, Generate Question or Submit handler has
\* finished, however it ended, operation_running is false, operation_type is
\* null and stop_requested is false; a handler marks an operation running only
\* from a state where none is running, so at most one is running at a time.
C29_OperationStateResets ==
    []OperationStateOfHandler /\ [][OperationStartsFromReset]_vars

\* C29 witness: a Get Explanation handler in which stop was requested has
\* ended as cancelled, and the operation state is reset
C29_Witness ==
    /\ pc = "idle"
    /\ op = "get_explanation"
    /\ ui.shown = "cancelled"
    /\ Has({"stop"})
    /\ OperationStateReset

\* a Get Explanation handler ended without entering generate_explanation:
\* cancelled at the check after retrieval, or stopped by the nothing-to-do
\* signal of process_query
EndedWithoutGeneration ==
    /\ pc = "idle"
    /\ op = "get_explanation"
    /\ ui.shown \in {"cancelled", "warning_question"}
    /\ gen.fn = ""

\* the records store_user_query persisted for the current handler
RecordsOfOperation ==
    {<<"user_queries", q>> : q \in {r \in DOMAIN user_queries :
                                        user_queries[r].call = ncalls}}
    \cup {<<"attachments", a>> : a \in {r \in DOMAIN attachments :
                                        attachments[r].call = ncalls}}
    \cup {<<"embeddings", e>> : e \in {r \in embeddings :
            /\ r[1] = "user_queries"
            /\ r[2] \in DOMAIN user_queries
            /\ user_queries[r[2]].call = ncalls}}

\* store_user_query is entered by Get Explanation only for a signed-in user
StoredOnlyWhenSignedIn ==
    (op = "get_explanation" /\ suq.call # 0 /\ suq.call = ncalls) =>
        /\ session.user_id # NoUser
        /\ suq.user_id = session.user_id

\* C30: in the Get Explanation flow store_user_query is invoked only when a
\* user is signed in, and an operation that ends without generation, by a
\* stop requested before the check after retrieval or by the nothing-to-do
\* signal of process_query, leaves no UserQuery, Attachment or Embedding
\* record persisted for it.
C30_NoRecordWithoutGeneration ==
    /\ StoredOnlyWhenSignedIn
    /\ EndedWithoutGeneration => RecordsOfOperation = {}
====
